---- MODULE Spec2Model ----
(***************************************************************************)
(* ACISpawner (src/acispawner/acispawner.py): the session lifecycle of one *)
(* user's container group on Azure Container Instances.  The controller is *)
(* the coroutine start() (with start_existing, create_share_if_not_exist,  *)
(* spawn_container_group, create_container_group and the poll loop), plus  *)
(* the standalone poll() and stop().  The provider (the container group,   *)
(* the file shares, the network) is the environment: it answers each call  *)
(* and changes on its own between two calls of the controller.             *)
(***************************************************************************)
EXTENDS Integers, Sequences, FiniteSets, TLC

\* ---------------------------------------------------------------- bounds
\* spawn_timeout is configured as one of 0, 5, 10, ..., 5 * MaxTimeoutSteps,
\* or as 300
MaxTimeoutSteps == 7
\* the hub calls poll() on its own at most MaxHubPolls times
MaxHubPolls == 2
\* the hub calls stop() at most MaxHubOps times, and as often
\* delete_container_group()
MaxHubOps == 1

\* ------------------------------------------------------ program constants
\* for _ in range(3) of create_container_group
CreateAttempts == 3
\* await asyncio.sleep(10) of create_container_group
retry_sleep == 10
\* poll_sleep = 10 of start
poll_sleep == 10
\* port = Int(80, ...)
DefaultPort == 80

User == "alice"
Addrs == {"10.0.0.5", "10.0.0.6"}

\* Python's None
None == [none |-> TRUE]

\* provisioning_state and instance_view.state of a container group
ProvisioningStates == {"Pending", "Succeeded"}
InstanceStates == {"Stopped", "Running"}
\* what sock.connect_ex((ip, port)) returns for the group's address:
\* 0, ECONNREFUSED (111) or ETIMEDOUT (110)
ConnectCodes == {0, 111, 110}

\* The container groups the provider can hold under the user's group name
Groups ==
    [provisioning_state : ProvisioningStates,
     state : InstanceStates,
     ip : Addrs,
     port : {DefaultPort},
     connect : ConnectCodes]

SpawnTimeouts == {5 * k : k \in 0..MaxTimeoutSteps} \cup {300}

\* ------------------------------------------------------------------ names
container_group_name(u) == "z-jupyter-ci-" \o u
container_name(u) == "jupyter-" \o u

\* one share for the whole account
share_name_Shared(u) == "vol-jupyter"

share_name(u) == "vol-" \o u

ShareNames == {share_name(User), "vol-other"}

\* the users of a hub, each with a spawner of its own
Users == {User, "bob"}

\* user names, among them prefixes and extensions of one another
UserNames == Users \cup {"al", "alice2", "ice", "Bob", "ci-bob"}

GroupNames == {container_group_name(u) : u \in Users}

\* a spawner that has not been started
Fresh == [pc |-> "idle", attempt |-> 0, s |-> 0]

VARIABLES
    group,          \* provider: the group named container_group_name, or None
    shares,         \* provider: the names of the file shares that exist
    spawn_timeout,  \* configuration
    pc,             \* where start() is
    attempt,        \* the loop variable _ of create_container_group
    s,              \* the loop variable s of start
    exists,         \* what start_existing returned
    result,         \* how start() ended
    calls,          \* provider calls issued by start(), by operation
    slept,          \* time units start() has spent in asyncio.sleep
    polls,          \* poll() calls made by start()'s loop
    hubPolls,       \* poll() calls made by the hub itself
    createResps,    \* answers to start()'s create_or_update calls: how many of each
    lastGet,        \* how the provider answered the get of the last poll()
    pollRet,        \* what the last poll() returned
    readySnap,      \* the snapshot on which start()'s poll() found readiness
    stopRet,        \* how the last stop() ended
    hubOps,         \* stop() and delete_container_group() calls of the hub
    volume,         \* create_share_if_not_exist: what became of the share
    ctl,            \* several users: where each user's start() is
    cloud,          \* several users: the provider's groups, by name, and shares
    running,        \* several users: whose coroutine the event loop is running
    targets         \* several users: the provider calls issued, with their names

vars == <<group, shares, spawn_timeout, pc, attempt, s, exists, result, calls,
          slept, polls, hubPolls, createResps, lastGet, pollRet, readySnap, stopRet,
          hubOps, volume, ctl, cloud, running, targets>>

\* what the controllers of several users add to the state
multi == <<ctl, cloud, running, targets>>

provider == <<group, shares>>

\* ------------------------------------------------------- provider answers
\* What the provider's read model shows of a group: everything but the
\* network behaviour of the address, which only a connection finds out
Snapshot(g) ==
    [provisioning_state |-> g.provisioning_state,
     state |-> g.state,
     ip |-> g.ip,
     port |-> g.port]

\* The answers container_groups.get can give in the current provider state:
\* the group, ResourceNotFound, or any other exception (the provider is
\* unreachable)
GetResponses ==
    IF group = None
    THEN {[kind |-> "not_found"], [kind |-> "unreachable"]}
    ELSE {[kind |-> "found", group |-> Snapshot(group)], [kind |-> "unreachable"]}

\* sock.connect_ex((ip, port)): the error code, 0 for a connection.  Nothing
\* answers at an address no group holds: the connection times out.
connect_ex(ip, port) ==
    IF group # None /\ group.ip = ip /\ group.port = port
    THEN group.connect
    ELSE 110

\* ------------------------------------------------------------ pure helpers
\* get_container_group: the group, or None on ANY exception of the get
get_container_group(resp) ==
    IF resp.kind = "found" THEN resp.group ELSE None

get_ip_port(container_group) ==
    <<container_group.ip, container_group.port>>

test_connect(container_group) ==
    LET addr == get_ip_port(container_group)
        res == connect_ex(addr[1], addr[2])
    IN  IF res = 0 THEN TRUE ELSE FALSE

\* an is_ready that trusts the provider's states and skips the connection
is_ready_NoProbe(container_group) ==
    IF container_group = None THEN FALSE
    ELSE IF ~(container_group.provisioning_state = "Succeeded") THEN FALSE
    ELSE IF ~(container_group.state = "Running") THEN FALSE
    ELSE TRUE

is_ready(container_group) ==
    IF container_group = None THEN FALSE
    ELSE IF ~(container_group.provisioning_state = "Succeeded") THEN FALSE
    ELSE IF ~(container_group.state = "Running") THEN FALSE
    ELSE IF ~test_connect(container_group) THEN FALSE
    ELSE TRUE

\* what poll() returns: None (running) or the integer exit status 0
ExitStatus(n) == [status |-> n]

\* a poll() whose "not running" status is 1
poll_Status1(resp) ==
    IF is_ready(get_container_group(resp)) THEN None ELSE ExitStatus(1)

poll(resp) ==
    IF is_ready(get_container_group(resp)) THEN None ELSE ExitStatus(0)

\* a budget rounded up
poll_timeout_Ceil == (spawn_timeout + poll_sleep - 1) \div poll_sleep

\* poll_timeout = int(self.spawn_timeout / poll_sleep): true division, then
\* truncation towards zero; spawn_timeout is not negative here
poll_timeout == spawn_timeout \div poll_sleep

\* ------------------------------------------------------- start()'s results
Pending == [kind |-> "pending"]
ReturnedAddress(ip, port) == [kind |-> "address", ip |-> ip, port |-> port]
ReturnedNone == [kind |-> "None"]
Raised(e) == [kind |-> "raised", exc |-> e]

Ops == {"get", "begin_start", "list_shares", "create_share", "begin_create_or_update"}

Call(op) == [calls EXCEPT ![op] = @ + 1]

\* volume.ensured: an earlier start() of this controller ran
\* create_share_if_not_exist and ended with the share in place;
\* volume.later: the create_share calls issued since then
NoVolume == [ensured |-> FALSE, later |-> 0]

Init ==
    /\ group \in Groups \cup {None}
    /\ shares \in SUBSET ShareNames
    /\ spawn_timeout \in SpawnTimeouts
    /\ pc = "idle"
    /\ attempt = 0
    /\ s = 0
    /\ exists = FALSE
    /\ result = Pending
    /\ calls = [op \in Ops |-> 0]
    /\ slept = 0
    /\ polls = 0
    /\ hubPolls = 0
    /\ createResps = [ok |-> 0, transitioning |-> 0, error |-> 0]
    /\ lastGet = "none"
    /\ pollRet = [unset |-> TRUE]
    /\ readySnap = None
    /\ stopRet = "none"
    /\ hubOps = [stop |-> 0, delete |-> 0]
    /\ volume = NoVolume
    /\ ctl = [u \in Users |-> Fresh]
    /\ cloud = [groups |-> [n \in GroupNames |-> "absent"], shares |-> {}]
    /\ running = {}
    /\ targets = {}

\* ------------------------------------------------------------- start()
\* start_existing, first half: get_container_group(); no group (or a get
\* that failed) makes it return False
StartExistingGet ==
    /\ pc = "idle"
    /\ \E resp \in GetResponses :
         LET cg == get_container_group(resp)
         IN  pc' = IF cg = None THEN "share_exists" ELSE "start_container_group"
    /\ calls' = Call("get")
    /\ UNCHANGED <<group, shares, spawn_timeout, attempt, s, exists, result,
                   slept, polls, hubPolls, createResps, lastGet, pollRet, readySnap, stopRet, hubOps, volume, multi>>

\* a start() that goes straight to the create when the start call failed
AfterStartExisting_SkipsVolume(e) ==
    IF ~e THEN "create_container_group" ELSE "poll"

\* a start() that creates whatever start_existing returned
AfterStartExisting_AlwaysCreates(e) == "share_exists"

\* if not exists: create the share, spawn the group; then the poll loop
AfterStartExisting(e) ==
    IF ~e THEN "share_exists" ELSE "poll"

\* start_existing, second half: start_container_group(); any exception is
\* logged and makes it return False.  The provider accepts a start only of
\* a group that exists, and may refuse that too.
StartExistingStart ==
    /\ pc = "start_container_group"
    /\ \E accepted \in {a \in BOOLEAN : a => group # None} :
         /\ exists' = accepted
         /\ pc' = AfterStartExisting(accepted)
    /\ calls' = Call("begin_start")
    /\ UNCHANGED <<group, shares, spawn_timeout, attempt, s, result,
                   slept, polls, hubPolls, createResps, lastGet, pollRet, readySnap, stopRet, hubOps, volume, multi>>

\* a share_exists that is content with any share in the listing
share_exists_AnyShare(listing) == listing # {}

\* share_exists: for share in shares: if share.name == self.share_name
share_exists(listing) ==
    \E share \in listing : share = share_name(User)

\* create_share_if_not_exist -> share_exists: list_shares and the exact
\* match on the name; an exception of the listing leaves start()
ShareExists ==
    /\ pc = "share_exists"
    /\ calls' = Call("list_shares")
    /\ \E listed \in BOOLEAN :
         IF ~listed
         THEN /\ pc' = "done"
              /\ result' = Raised("list_shares")
         ELSE /\ pc' = IF share_exists(shares)
                       THEN "create_container_group" ELSE "create_share"
              /\ UNCHANGED result
    /\ UNCHANGED <<group, shares, spawn_timeout, attempt, s, exists,
                   slept, polls, hubPolls, createResps, lastGet, pollRet, readySnap, stopRet, hubOps, volume, multi>>

\* create_share: every exception of the create is logged as "already
\* exists" and swallowed.  The provider refuses a name that exists, and may
\* fail otherwise.
CreateShare ==
    /\ pc = "create_share"
    /\ calls' = Call("create_share")
    /\ \E outcome \in IF share_name(User) \in shares
                      THEN {"already_exists"} ELSE {"created", "error"} :
         /\ shares' = IF outcome = "created"
                      THEN shares \cup {share_name(User)} ELSE shares
    /\ volume' = [volume EXCEPT !.later = IF volume.ensured THEN @ + 1 ELSE @]
    /\ pc' = "create_container_group"
    /\ UNCHANGED <<group, spawn_timeout, attempt, s, exists, result,
                   slept, polls, hubPolls, createResps, lastGet, pollRet, readySnap, stopRet, hubOps, multi>>

\* The group an accepted create_or_update leaves at the provider: accepted,
\* not yet provisioned
Accepted(ip) ==
    IF group = None
    THEN [provisioning_state |-> "Pending", state |-> "Stopped", ip |-> ip,
          port |-> DefaultPort, connect |-> 111]
    ELSE [group EXCEPT !.provisioning_state = "Pending"]

\* Where create_container_group goes after a call that raised: the next
\* iteration of for _ in range(3), or out of the loop (return None)
AfterFailedAttempt(n) ==
    IF n + 1 < CreateAttempts THEN "create_container_group" ELSE "poll"

\* spawn_container_group(recreate=False) -> create_container_group: one
\* iteration of the loop up to the call's answer
CreateOrUpdate ==
    /\ pc = "create_container_group"
    /\ calls' = Call("begin_create_or_update")
    /\ \E answer \in {"ok", "transitioning", "error"} :
         /\ createResps' = [createResps EXCEPT ![answer] = @ + 1]
         /\ IF answer = "ok"
            THEN /\ \E ip \in Addrs : group' = Accepted(ip)
                 /\ pc' = "poll"
                 /\ UNCHANGED attempt
            ELSE IF answer = "transitioning"
            THEN /\ pc' = "retry_sleep"
                 /\ UNCHANGED <<group, attempt>>
            ELSE /\ pc' = AfterFailedAttempt(attempt)
                 /\ attempt' = attempt + 1
                 /\ UNCHANGED group
    /\ UNCHANGED <<shares, spawn_timeout, s, exists, result,
                   slept, polls, hubPolls, lastGet, pollRet, readySnap, stopRet, hubOps, volume, multi>>

\* await asyncio.sleep(10) of create_container_group, then the next iteration
RetrySleep ==
    /\ pc = "retry_sleep"
    /\ slept' = slept + retry_sleep
    /\ pc' = AfterFailedAttempt(attempt)
    /\ attempt' = attempt + 1
    /\ UNCHANGED <<group, shares, spawn_timeout, s, exists, result, calls,
                   polls, hubPolls, createResps, lastGet, pollRet, readySnap, stopRet, hubOps, volume, multi>>

\* for s in range(poll_timeout): is_up = await self.poll()
PollAttempt ==
    /\ pc = "poll"
    /\ s < poll_timeout
    /\ calls' = Call("get")
    /\ polls' = polls + 1
    /\ \E resp \in GetResponses :
         /\ lastGet' = resp.kind
         /\ pollRet' = poll(resp)
         /\ IF poll(resp) = None
            THEN /\ readySnap' = get_container_group(resp)
                 /\ pc' = "get_ip_port"
            ELSE /\ pc' = "poll_sleep"
                 /\ UNCHANGED readySnap
    /\ UNCHANGED <<group, shares, spawn_timeout, attempt, s, exists, result,
                   slept, hubPolls, createResps, stopRet, hubOps, volume, multi>>

\* ip, port = self.get_ip_port(self.get_container_group()); return (ip, port).
\* A second get: None has no ip_address, and the attribute access raises.
ReturnIpPort ==
    /\ pc = "get_ip_port"
    /\ calls' = Call("get")
    /\ \E resp \in GetResponses :
         LET cg == get_container_group(resp)
         IN  result' = IF cg = None
                       THEN Raised("AttributeError")
                       ELSE ReturnedAddress(get_ip_port(cg)[1], get_ip_port(cg)[2])
    /\ pc' = "done"
    /\ UNCHANGED <<group, shares, spawn_timeout, attempt, s, exists,
                   slept, polls, hubPolls, createResps, lastGet, pollRet, readySnap, stopRet, hubOps, volume, multi>>

\* a loop whose s never advances (while not ready: sleep)
PollSleep_NoAdvance ==
    /\ pc = "poll_sleep"
    /\ slept' = slept + poll_sleep
    /\ pc' = "poll"
    /\ UNCHANGED <<group, shares, spawn_timeout, attempt, s, exists, result,
                   calls, polls, hubPolls, createResps, lastGet, pollRet,
                   readySnap, stopRet, hubOps, volume, multi>>

\* await asyncio.sleep(poll_sleep), then the next s
PollSleep ==
    /\ pc = "poll_sleep"
    /\ slept' = slept + poll_sleep
    /\ s' = s + 1
    /\ pc' = "poll"
    /\ UNCHANGED <<group, shares, spawn_timeout, attempt, exists, result, calls,
                   polls, hubPolls, createResps, lastGet, pollRet, readySnap, stopRet, hubOps, volume, multi>>

\* a start() that returns the pair (None, None) its comment speaks of
LoopExhaustedReturn_Pair == ReturnedAddress(None, None)

\* return None, after the loop
LoopExhaustedReturn == ReturnedNone

\* the loop is exhausted
PollExhausted ==
    /\ pc = "poll"
    /\ ~(s < poll_timeout)
    /\ result' = LoopExhaustedReturn
    /\ pc' = "done"
    /\ UNCHANGED <<group, shares, spawn_timeout, attempt, s, exists, calls,
                   slept, polls, hubPolls, createResps, lastGet, pollRet, readySnap, stopRet, hubOps, volume, multi>>

\* ------------------------------------------------- poll() and stop() alone
\* The spawner keeps no state between the hub's calls (get_state, load_state
\* and clear_state are unused): what poll() and stop() do after a start() is
\* what they do from the provider state that start() left, and Init ranges
\* over every provider state.  So the hub either calls start(), or it drives
\* the spawner with poll() and stop() alone (pc = "hub").
HubPcs == {"idle", "hub"}

\* the hub's own poll()
Poll ==
    /\ pc \in HubPcs
    /\ hubPolls < MaxHubPolls
    /\ pc' = "hub"
    /\ hubPolls' = hubPolls + 1
    /\ \E resp \in GetResponses :
         /\ lastGet' = resp.kind
         /\ pollRet' = poll(resp)
    /\ UNCHANGED <<group, shares, spawn_timeout, attempt, s, exists, result,
                   calls, slept, polls, createResps, readySnap, stopRet, hubOps, volume, multi>>

\* what container_groups.stop leaves of a group: halted, not deleted
Halted(g) == [g EXCEPT !.state = "Stopped", !.connect = 111]

\* a stop() without its try: the provider's exception reaches the caller
stop_Propagates(accepted) == IF accepted THEN "stopped" ELSE "raised"

\* how stop() ends, both times by return None: the group was stopped, or
\* the exception of stop_container_group was logged
stop(accepted) == IF accepted THEN "stopped" ELSE "error_logged"

\* a delete that takes the user's share with the group
SharesAfterDelete_DropsShare(accepted) ==
    IF accepted THEN shares \ {share_name(User)} ELSE shares

\* delete_container_group touches container_groups only: the shares stay
SharesAfterDelete(accepted) == shares

\* stop(): stop_container_group(), any exception logged; return None.  The
\* provider halts a group that exists, and may fail.
Stop ==
    /\ pc \in HubPcs
    /\ hubOps["stop"] < MaxHubOps
    /\ pc' = "hub"
    /\ hubOps' = [hubOps EXCEPT !["stop"] = @ + 1]
    /\ \E accepted \in {a \in BOOLEAN : a => group # None} :
         /\ group' = IF accepted THEN Halted(group) ELSE group
         /\ stopRet' = stop(accepted)
    /\ UNCHANGED <<shares, spawn_timeout, attempt, s, exists, result,
                   calls, slept, polls, hubPolls, createResps, lastGet, pollRet, readySnap, volume, multi>>

\* delete_container_group(), the first step of spawn_container_group with
\* recreate: begin_delete, any exception printed as "doesnt exist".  The
\* provider deletes a group that exists, and may fail.
Delete ==
    /\ pc \in HubPcs
    /\ hubOps["delete"] < MaxHubOps
    /\ pc' = "hub"
    /\ hubOps' = [hubOps EXCEPT !["delete"] = @ + 1]
    /\ \E accepted \in {a \in BOOLEAN : a => group # None} :
         /\ group' = IF accepted THEN None ELSE group
         /\ shares' = SharesAfterDelete(accepted)
    /\ UNCHANGED <<spawn_timeout, attempt, s, exists, result, calls, slept,
                   polls, hubPolls, createResps, lastGet, pollRet, readySnap,
                   stopRet, volume, multi>>

\* ------------------------------------------------------------ the provider
controller == <<spawn_timeout, pc, attempt, s, exists, result, calls, slept,
                polls, hubPolls, createResps, lastGet, pollRet, readySnap, stopRet,
                hubOps, volume>>

\* the group is deleted by someone else
ProviderDelete ==
    /\ group # None
    /\ group' = None
    /\ UNCHANGED <<shares, controller, multi>>

\* provisioning completes, or an update starts
ProviderProvisioning ==
    /\ group # None
    /\ \E p \in ProvisioningStates \ {group.provisioning_state} :
         group' = [group EXCEPT !.provisioning_state = p]
    /\ UNCHANGED <<shares, controller, multi>>

\* the container starts, or it stops
ProviderInstanceState ==
    /\ group # None
    /\ \E st \in InstanceStates \ {group.state} :
         group' = [group EXCEPT !.state = st]
    /\ UNCHANGED <<shares, controller, multi>>

\* the server in the container binds its port, or goes away
ProviderNetwork ==
    /\ group # None
    /\ \E c \in ConnectCodes \ {group.connect} :
         group' = [group EXCEPT !.connect = c]
    /\ UNCHANGED <<shares, controller, multi>>

\* the group gets another private address (a restart)
ProviderReaddress ==
    /\ group # None
    /\ \E ip \in Addrs \ {group.ip} :
         group' = [group EXCEPT !.ip = ip]
    /\ UNCHANGED <<shares, controller, multi>>

\* the user's share appears (another controller of the same user won the race)
ProviderCreatesShare ==
    /\ share_name(User) \notin shares
    /\ shares' = shares \cup {share_name(User)}
    /\ UNCHANGED <<group, controller, multi>>

Next ==
    \/ StartExistingGet
    \/ StartExistingStart
    \/ ShareExists
    \/ CreateShare
    \/ CreateOrUpdate
    \/ RetrySleep
    \/ PollAttempt
    \/ ReturnIpPort
    \/ PollSleep
    \/ PollExhausted
    \/ Poll
    \/ Stop
    \/ Delete
    \/ ProviderDelete
    \/ ProviderProvisioning
    \/ ProviderInstanceState
    \/ ProviderNetwork
    \/ ProviderReaddress
    \/ ProviderCreatesShare

Spec == Init /\ [][Next]_vars

\* The steps of the coroutine start().  The event loop resumes a coroutine
\* whose sleep is over, and every provider call returns: a start() that can
\* take a step takes one.
\* the first step of start() is the hub's to take or not
StartRunning ==
    \/ StartExistingStart
    \/ ShareExists
    \/ CreateShare
    \/ CreateOrUpdate
    \/ RetrySleep
    \/ PollAttempt
    \/ ReturnIpPort
    \/ PollSleep
    \/ PollExhausted

\* the spawn_timeout values up to the bound; the default of 300 is left to Spec
InitFair == Init /\ spawn_timeout <= 5 * MaxTimeoutSteps

SpecFair == InitFair /\ [][Next]_vars /\ WF_vars(StartRunning)

\* ------------------------------------------------------ start() once more
\* The hub calls start() again after a start() that has ended: a new
\* coroutine on the same spawner, against the provider as it is now.
StartAgain ==
    /\ pc = "done"
    /\ pc' = "idle"
    /\ attempt' = 0
    /\ s' = 0
    /\ exists' = FALSE
    /\ result' = Pending
    /\ calls' = [op \in Ops |-> 0]
    /\ slept' = 0
    /\ polls' = 0
    /\ createResps' = [ok |-> 0, transitioning |-> 0, error |-> 0]
    /\ lastGet' = "none"
    /\ pollRet' = [unset |-> TRUE]
    /\ readySnap' = None
    /\ volume' = [volume EXCEPT !.ensured =
                      @ \/ (calls["list_shares"] > 0 /\ share_name(User) \in shares)]
    /\ UNCHANGED <<group, shares, spawn_timeout, hubPolls, stopRet, hubOps, multi>>

\* start() called again and again, with a spawn_timeout of at most one poll
InitRestart == Init /\ spawn_timeout <= poll_sleep

NextRestart == Next \/ StartAgain

SpecRestart == InitRestart /\ [][NextRestart]_vars

\* ---------------------------------------------------------- several users
\* One hub, one asyncio event loop, and a spawner for each user.  The
\* spawners share the configuration (spawn_timeout) and the provider
\* account; each derives the names of its group and its share from its own
\* user.  The provider's clients are synchronous: a coroutine gives up the
\* event loop at await asyncio.sleep and nowhere else.
\* A group of cloud.groups is "absent", "Pending", "Running" (ready for
\* is_ready) or "Stopped".

\* a start() that sleeps with time.sleep: it keeps the event loop
Yields_Blocking(p) == FALSE

\* await asyncio.sleep(10): the positions where start() is suspended
Yields(p) == p \in {"retry_sleep", "poll_sleep"}

\* the event loop is not running another user's coroutine
Free(u) == running \subseteq {u}

\* who the event loop is running after a step that left u's start() at p
Holder(u, p) ==
    IF Yields(p) \/ p \in {"idle", "done"} THEN {} ELSE {u}

GroupOps == {"get", "begin_start", "begin_create_or_update", "stop"}

\* the call op of u's spawner: on container_group_name, or on share_name
Targeted(u, op) ==
    targets \cup {[user |-> u, op |-> op,
                   name |-> IF op \in GroupOps THEN container_group_name(u)
                                               ELSE share_name(u)]}

single == <<provider, controller>>

\* start_existing of u, first half: get_container_group()
StartExistingGetOf(u) ==
    /\ ctl[u].pc = "idle"
    /\ Free(u)
    /\ targets' = Targeted(u, "get")
    /\ \E found \in {f \in BOOLEAN : f => cloud.groups[container_group_name(u)] # "absent"} :
         LET p == IF found THEN "start_container_group" ELSE "share_exists"
         IN  /\ ctl' = [ctl EXCEPT ![u].pc = p]
             /\ running' = Holder(u, p)
    /\ UNCHANGED <<cloud, single>>

\* start_existing of u, second half: start_container_group()
StartExistingStartOf(u) ==
    /\ ctl[u].pc = "start_container_group"
    /\ Free(u)
    /\ targets' = Targeted(u, "begin_start")
    /\ \E accepted \in BOOLEAN :
         LET p == AfterStartExisting(accepted)
         IN  /\ cloud' = IF accepted
                         THEN [cloud EXCEPT !.groups[container_group_name(u)] = "Pending"]
                         ELSE cloud
             /\ ctl' = [ctl EXCEPT ![u].pc = p]
             /\ running' = Holder(u, p)
    /\ UNCHANGED single

\* share_exists of u: the listing is of the whole account, the comparison
\* is with share_name; an exception of list_shares ends start()
ShareExistsOf(u) ==
    /\ ctl[u].pc = "share_exists"
    /\ Free(u)
    /\ \E listed \in BOOLEAN :
         LET p == IF ~listed THEN "done"
                  ELSE IF \E share \in cloud.shares : share = share_name(u)
                  THEN "create_container_group"
                  ELSE "create_share"
         IN  /\ ctl' = [ctl EXCEPT ![u].pc = p]
             /\ running' = Holder(u, p)
    /\ UNCHANGED <<cloud, targets, single>>

\* create_share of u
CreateShareOf(u) ==
    /\ ctl[u].pc = "create_share"
    /\ Free(u)
    /\ targets' = Targeted(u, "create_share")
    /\ \E created \in BOOLEAN :
         cloud' = IF created
                  THEN [cloud EXCEPT !.shares = @ \cup {share_name(u)}]
                  ELSE cloud
    /\ ctl' = [ctl EXCEPT ![u].pc = "create_container_group"]
    /\ running' = Holder(u, "create_container_group")
    /\ UNCHANGED single

\* create_container_group of u: one iteration up to the call's answer
CreateOrUpdateOf(u) ==
    /\ ctl[u].pc = "create_container_group"
    /\ Free(u)
    /\ targets' = Targeted(u, "begin_create_or_update")
    /\ \E answer \in {"ok", "transitioning", "error"} :
         LET p == IF answer = "ok" THEN "poll"
                  ELSE IF answer = "transitioning" THEN "retry_sleep"
                  ELSE AfterFailedAttempt(ctl[u].attempt)
         IN  /\ cloud' = IF answer = "ok"
                         THEN [cloud EXCEPT !.groups[container_group_name(u)] = "Pending"]
                         ELSE cloud
             /\ ctl' = [ctl EXCEPT ![u].pc = p,
                                   ![u].attempt = IF answer = "error" THEN @ + 1 ELSE @]
             /\ running' = Holder(u, p)
    /\ UNCHANGED single

\* the sleep of create_container_group is over: u's start() is resumed
RetrySleepOf(u) ==
    /\ ctl[u].pc = "retry_sleep"
    /\ Free(u)
    /\ LET p == AfterFailedAttempt(ctl[u].attempt)
       IN  /\ ctl' = [ctl EXCEPT ![u].pc = p, ![u].attempt = @ + 1]
           /\ running' = Holder(u, p)
    /\ UNCHANGED <<cloud, targets, single>>

\* one iteration of u's poll loop up to the sleep: poll(), and on readiness
\* the second get and the return; or the loop is exhausted
PollAttemptOf(u) ==
    /\ ctl[u].pc = "poll"
    /\ Free(u)
    /\ LET p == IF ~(ctl[u].s < poll_timeout) THEN "done"
                ELSE IF cloud.groups[container_group_name(u)] = "Running" THEN "done"
                ELSE "poll_sleep"
       IN  /\ ctl' = [ctl EXCEPT ![u].pc = p]
           /\ running' = Holder(u, p)
    /\ targets' = IF ctl[u].s < poll_timeout THEN Targeted(u, "get") ELSE targets
    /\ UNCHANGED <<cloud, single>>

\* the sleep of the poll loop is over: u's start() is resumed with the next s
PollSleepOf(u) ==
    /\ ctl[u].pc = "poll_sleep"
    /\ Free(u)
    /\ ctl' = [ctl EXCEPT ![u].pc = "poll", ![u].s = @ + 1]
    /\ running' = Holder(u, "poll")
    /\ UNCHANGED <<cloud, targets, single>>

\* stop() of u's spawner after its start() has ended; the spawner can be
\* started again
StopOf(u) ==
    /\ ctl[u].pc = "done"
    /\ Free(u)
    /\ targets' = Targeted(u, "stop")
    /\ \E accepted \in {a \in BOOLEAN : a => cloud.groups[container_group_name(u)] # "absent"} :
         cloud' = IF accepted
                  THEN [cloud EXCEPT !.groups[container_group_name(u)] = "Stopped"]
                  ELSE cloud
    /\ ctl' = [ctl EXCEPT ![u] = Fresh]
    /\ running' = Holder(u, "idle")
    /\ UNCHANGED single

\* the provider has brought a group up
ProviderRuns(n) ==
    /\ cloud.groups[n] = "Pending"
    /\ cloud' = [cloud EXCEPT !.groups[n] = "Running"]
    /\ UNCHANGED <<ctl, running, targets, single>>

\* a step of u's spawner
UserStep(u) ==
    \/ StartExistingGetOf(u)
    \/ StartExistingStartOf(u)
    \/ ShareExistsOf(u)
    \/ CreateShareOf(u)
    \/ CreateOrUpdateOf(u)
    \/ RetrySleepOf(u)
    \/ PollAttemptOf(u)
    \/ PollSleepOf(u)
    \/ StopOf(u)

\* no group, no share, and room for two polls in spawn_timeout
InitUsers ==
    /\ Init
    /\ group = None
    /\ shares = {}
    /\ spawn_timeout = 2 * poll_sleep

NextUsers ==
    \/ \E u \in Users : StartExistingGetOf(u)
    \/ \E u \in Users : StartExistingStartOf(u)
    \/ \E u \in Users : ShareExistsOf(u)
    \/ \E u \in Users : CreateShareOf(u)
    \/ \E u \in Users : CreateOrUpdateOf(u)
    \/ \E u \in Users : RetrySleepOf(u)
    \/ \E u \in Users : PollAttemptOf(u)
    \/ \E u \in Users : PollSleepOf(u)
    \/ \E u \in Users : StopOf(u)
    \/ \E n \in GroupNames : ProviderRuns(n)

SpecUsers == InitUsers /\ [][NextUsers]_vars

\* ================================================================ claims
\* start() is past create_share_if_not_exist and spawn_container_group
InLoopOrAfter == pc \in {"poll", "poll_sleep", "get_ip_port", "done"}

\* start() entered its poll loop: by the existing group, or by a create
EnteredLoop ==
    InLoopOrAfter /\ (exists \/ calls["begin_create_or_update"] > 0)

\* C1: when start_existing found a group and the provider accepted the start
\* call on it, start() has issued no list_shares, no create_share and no
\* create_or_update; and when the first poll() of that start() found the
\* group ready, start() has not slept at all, makes no second poll() and
\* does not end as a timeout.
C1_ExistingSkipsProvisioning ==
    exists =>
        /\ calls["list_shares"] = 0
        /\ calls["create_share"] = 0
        /\ calls["begin_create_or_update"] = 0
        /\ (readySnap # None /\ polls = 1) =>
               /\ slept = 0
               /\ s = 0
               /\ pc \in {"get_ip_port", "done"}
               /\ result # ReturnedNone

C1_Witness ==
    /\ pc = "done"
    /\ exists
    /\ polls = 1
    /\ readySnap # None
    /\ result.kind = "address"
    /\ calls["begin_start"] = 1

\* C2 as stated: a start() that ends by timeout has made exactly
\* ceil(spawn_timeout / 10) poll attempts.
C2_Original_CeilAttempts ==
    (pc = "done" /\ result = ReturnedNone) =>
        polls = (spawn_timeout + 9) \div 10

\* C2 as amended: a start() that ends by timeout has made exactly
\* floor(spawn_timeout / 10) poll attempts (30 of them for a spawn_timeout
\* of 300; a spawn_timeout that is no multiple of 10 is rounded down), each
\* one get, and has slept 10 time units after each of them, besides the 10
\* after each "still transitioning" answer.
C2_FloorAttempts ==
    (pc = "done" /\ result = ReturnedNone) =>
        /\ polls = spawn_timeout \div 10
        /\ 10 * polls <= spawn_timeout
        /\ spawn_timeout < 10 * (polls + 1)
        /\ (spawn_timeout = 300 => polls = 30)
        /\ slept = 10 * polls + 10 * createResps["transitioning"]
        /\ calls["get"] = polls + 1

C2_Witness ==
    /\ pc = "done"
    /\ result = ReturnedNone
    /\ spawn_timeout = 300
    /\ polls = 30
    /\ slept = 300

C4_ReturnsReadySnapshot ==
    (pc = "done" /\ readySnap # None) =>
        result = ReturnedAddress(readySnap.ip, readySnap.port)

\* C5 as stated: at most 3 create_or_update calls, 10 time units of wait
\* after a "still transitioning" answer, and after three such answers
\* start() has failed with the error, without a poll.
C5_TransitioningExhaustedIsFatal ==
    /\ calls["begin_create_or_update"] <= 3
    /\ (createResps["transitioning"] = 3 /\ pc # "retry_sleep") =>
          /\ pc = "done"
          /\ result.kind = "raised"
          /\ polls = 0

\* C6 as stated: after exactly 3 "still transitioning" answers the call is
\* issued once more (and an accepted 4th call makes the create succeed);
\* only a 4th such answer ends the create, as a failure of start().
C6_FourthCallAfterThreeTransitioning ==
    /\ (createResps = [ok |-> 0, transitioning |-> 3, error |-> 0]
        /\ pc # "retry_sleep") => pc = "create_container_group"
    /\ createResps["transitioning"] >= 4 => result.kind = "raised"

\* C7 as stated: after a failure of create_or_update that is not "still
\* transitioning" start() has failed with it: no further create_or_update,
\* no poll.
C7_OtherFailureIsPropagated ==
    createResps["error"] > 0 =>
        /\ pc = "done"
        /\ result.kind = "raised"
        /\ calls["begin_create_or_update"] = createResps["transitioning"] + 1
        /\ polls = 0

\* a step in which poll() ran: in start()'s loop, or called by the hub
PollStep == polls' # polls \/ hubPolls' # hubPolls

\* the provider state that poll() read passes the three checks
SnapshotPasses ==
    /\ lastGet' = "found"
    /\ group.provisioning_state = "Succeeded"
    /\ group.state = "Running"
    /\ group.connect = 0

\* C8 as stated: what poll() returns when the snapshot is not ready is a
\* status that is not zero.
C8_Original_NonZeroStatus ==
    (pollRet # None /\ pollRet # [unset |-> TRUE]) => pollRet.status # 0

\* C8 as amended: poll() returns None exactly when the snapshot it read
\* passes the readiness check, and in every other case the integer status 0.
C8_PollNoneIffReady ==
    [][PollStep =>
         /\ (pollRet' = None) <=> SnapshotPasses
         /\ (pollRet' # None) => (pollRet' = ExitStatus(0))]_vars

C8_Witness ==
    /\ pc = "hub"
    /\ hubPolls = 2
    /\ pollRet = ExitStatus(0)
    /\ lastGet = "found"
    /\ group # None
    /\ group.provisioning_state = "Succeeded"
    /\ group.state = "Running"
    /\ group.connect = 111

\* what a poll() that raised would leave as its outcome
PollRaised == [raised |-> TRUE]

\* C9 as stated: a poll() whose get found the provider unreachable does not
\* return a status: it raises.
C9_UnreachableIsPropagated ==
    lastGet = "unreachable" => pollRet = PollRaised

\* the snapshots a get can return
Snapshots ==
    [provisioning_state : ProvisioningStates,
     state : InstanceStates,
     ip : Addrs,
     port : {DefaultPort}]

\* C10: in every provider state and for every snapshot, present or None,
\* current or stale, is_ready has a value, and it is TRUE iff the snapshot
\* is there, its provisioning state is "Succeeded", its state is "Running"
\* and the connection to its address and port answers 0; so None, a refused
\* connection and a timed-out one give FALSE, as does a snapshot that was
\* ready once a condition has flipped.
C10_IsReadyIffAllThree ==
    \A cg \in Snapshots \cup {None} :
        /\ is_ready(cg) \in BOOLEAN
        /\ is_ready(cg) <=>
              /\ cg # None
              /\ cg.provisioning_state = "Succeeded"
              /\ cg.state = "Running"
              /\ connect_ex(cg.ip, cg.port) = 0
        /\ (cg = None \/ connect_ex(cg.ip, cg.port) \in {110, 111})
              => is_ready(cg) = FALSE

\* a snapshot passed the check, the server then refused connections, and
\* is_ready of the same snapshot is FALSE
C10_Witness ==
    /\ readySnap # None
    /\ is_ready(readySnap) = FALSE
    /\ group # None
    /\ Snapshot(group) = readySnap
    /\ group.connect = 111

\* a step in which stop() ran
StopStep == hubOps'["stop"] # hubOps["stop"]

\* C11: stop() ends by returning, whatever the provider answers: with the
\* group stopped, or with the provider's exception logged; that is how it
\* ends when there is no group.  Its one provider call halts the group at
\* most: a group that was there is still there, and so is every share.
C11_StopNeverRaises ==
    [][StopStep =>
         /\ stopRet' \in {"stopped", "error_logged"}
         /\ group = None => (group' = None /\ stopRet' = "error_logged")
         /\ group # None => group' \in {group, Halted(group)}
         /\ stopRet' = "stopped" => (group # None /\ group' = Halted(group))
         /\ shares' = shares]_vars

C11_Witness ==
    /\ pc = "hub"
    /\ hubOps = [stop |-> 1, delete |-> 0]
    /\ hubPolls = 0
    /\ stopRet = "error_logged"
    /\ group = None
    /\ share_name(User) \in shares

\* C12: create_share_if_not_exist goes on to create_share exactly when the
\* listing holds no share named share_name; a create_share that is refused
\* because the share exists does not end start(); and once a start() has
\* ended with the share in place, no later start() issues a create_share.
C12_EnsureVolumeIdempotent ==
    [][/\ (pc = "share_exists" /\ pc' \notin {"share_exists", "done"}) =>
              (pc' = "create_share" <=> share_name(User) \notin shares)
       /\ (pc = "create_share" /\ pc' # "create_share") =>
              /\ pc' = "create_container_group"
              /\ result' = Pending
              /\ calls'["create_share"] = 1
              /\ share_name(User) \in shares => shares' = shares
       /\ volume'.later = 0]_vars

C12_Witness ==
    /\ volume.ensured
    /\ pc = "create_container_group"
    /\ calls["list_shares"] = 1
    /\ calls["create_share"] = 0
    /\ "vol-other" \in shares

\* a step in which delete_container_group() ran
DeleteStep == hubOps'["delete"] # hubOps["delete"]

\* C13: no step of start(), poll(), stop() or delete_container_group, and
\* no step of the provider, removes a share; delete_container_group leaves
\* the shares as they are and removes the group at most.
C13_VolumesPersist ==
    [][/\ shares \subseteq shares'
       /\ DeleteStep => (shares' = shares /\ group' \in {group, None})]_vars

C13_Witness ==
    /\ pc = "hub"
    /\ hubOps["delete"] = 1
    /\ hubOps["stop"] = 1
    /\ group = None
    /\ share_name(User) \in shares

\* C14 as stated: a start() whose k-th poll() was the first to find
\* readiness ends with success, an address: after k poll attempts and the
\* k - 1 waits between them.
C14_ReadyAtAttemptK ==
    (pc = "done" /\ readySnap # None) =>
        /\ result.kind = "address"
        /\ polls = s + 1
        /\ slept = poll_sleep * (polls - 1)
                     + retry_sleep * createResps["transitioning"]

\* the ways start() ends
Outcomes == {"address", "None", "raised"}

\* C15: a start() that has begun reaches its end; it ends in exactly one of
\* the three ways, after at most 3 create_or_update calls and at most
\* poll_timeout poll attempts; and once it has ended it issues no provider
\* call and its result stays.
C15_StartTerminates ==
    /\ [](pc \notin HubPcs => <>(pc = "done"))
    /\ [](/\ calls["begin_create_or_update"] <= CreateAttempts
          /\ polls <= poll_timeout
          /\ calls["get"] <= poll_timeout + 2
          /\ (pc = "done") <=> (result.kind \in Outcomes)
          /\ (pc # "done") <=> (result = Pending))
    /\ [][pc = "done" => (pc' = "done" /\ result' = result /\ calls' = calls)]_vars

C15_Witness ==
    /\ pc = "done"
    /\ result = ReturnedNone
    /\ createResps = [ok |-> 0, transitioning |-> 3, error |-> 0]
    /\ polls = poll_timeout
    /\ polls >= 3

\* C17: the steps of one start() come in order.  A start call that the
\* provider refused is not an error of start(): create_share_if_not_exist
\* comes next.  A create_or_update is issued only after the one list_shares
\* (and the create_share, if any) of create_share_if_not_exist; a poll is
\* made only after the create loop has ended, by an accepted call or by its
\* last attempt; and after an accepted create_or_update no other is issued.
C17_StepsInOrder ==
    /\ (calls["begin_start"] = 1 /\ ~exists /\ pc # "start_container_group") =>
          /\ calls["list_shares"] = 1 \/ pc = "share_exists"
          /\ result.kind = "raised" => result.exc # "begin_start"
    /\ calls["begin_create_or_update"] > 0 =>
          /\ calls["list_shares"] = 1
          /\ pc \notin {"share_exists", "create_share"}
    /\ pc \in {"create_container_group", "retry_sleep"} => polls = 0
    /\ (polls > 0 /\ ~exists) =>
          /\ calls["begin_create_or_update"] >= 1
          /\ createResps["ok"] = 1 \/ attempt = CreateAttempts
    /\ createResps["ok"] <= 1
    /\ createResps["ok"] = 1 => InLoopOrAfter

C17_Witness ==
    /\ pc = "poll_sleep"
    /\ calls["begin_start"] = 1
    /\ ~exists
    /\ calls["list_shares"] = 1
    /\ calls["create_share"] = 1
    /\ createResps = [ok |-> 1, transitioning |-> 1, error |-> 1]
    /\ polls = 1

\* C18 as stated: create_share_if_not_exist makes one list_shares call and
\* at most one create_share call, and a create_share that failed, the share
\* not being there, ends start() with the failure.
C18_VolumeFailurePropagates ==
    [][/\ calls'["list_shares"] <= 1
       /\ calls'["create_share"] <= 1
       /\ (pc = "create_share" /\ pc' # "create_share"
           /\ share_name(User) \notin shares') =>
              (pc' = "done" /\ result'.kind = "raised")]_vars

\* the group, container and share names of a set of users
NamesOf(us) ==
    [group |-> {container_group_name(u) : u \in us},
     container |-> {container_name(u) : u \in us},
     share |-> {share_name(u) : u \in us}]

\* C16: the names are functions of the user name, and distinct user names
\* give distinct group names, distinct container names and distinct share
\* names; every call of a user's spawner, at any time, is on the one group
\* name or the one share name of that user, and the provider holds a group
\* for each user.
C16_NamesInjective ==
    /\ \A u, v \in UserNames :
          (\/ container_group_name(u) = container_group_name(v)
           \/ container_name(u) = container_name(v)
           \/ share_name(u) = share_name(v)) => u = v
    /\ \A k \in {"group", "container", "share"} :
          Cardinality(NamesOf(UserNames)[k]) = Cardinality(UserNames)
    /\ \A t1, t2 \in targets :
          (t1.user = t2.user /\ (t1.op \in GroupOps <=> t2.op \in GroupOps))
              => t1.name = t2.name
    /\ \A t1, t2 \in targets : t1.user # t2.user => t1.name # t2.name
    /\ Cardinality(DOMAIN cloud.groups) = Cardinality(Users)

C16_Witness ==
    /\ \A u \in Users :
          /\ cloud.groups[container_group_name(u)] = "Running"
          /\ share_name(u) \in cloud.shares
          /\ \E t \in targets : t.user = u /\ t.op = "create_share"
          /\ \E t \in targets : t.user = u /\ t.op = "begin_create_or_update"
    /\ Cardinality(cloud.shares) = Cardinality(Users)

\* the names that belong to u
OwnNames(u) == {container_group_name(u), share_name(u)}

\* u's start() is in the sleep of its create loop or of its poll loop
Sleeping(u) == ctl[u].pc \in {"retry_sleep", "poll_sleep"}

\* C19: while the start() of one user is in a sleep, the spawner of any
\* other user that has something to do can do it; every call of a spawner
\* is on a name of its own user and on no name of another user; and a step
\* of one user's spawner leaves the group and the share of every other user
\* as they are.
C19_UsersDoNotInterfere ==
    /\ [](\A u \in Users : Sleeping(u) =>
             \A v \in Users \ {u} : ENABLED UserStep(v))
    /\ [](\A t \in targets :
             /\ t.name \in OwnNames(t.user)
             /\ \A v \in Users \ {t.user} : t.name \notin OwnNames(v))
    /\ [][\A u \in Users : ctl'[u] # ctl[u] =>
             \A v \in Users \ {u} :
                 /\ cloud'.groups[container_group_name(v)]
                        = cloud.groups[container_group_name(v)]
                 /\ share_name(v) \in cloud'.shares <=> share_name(v) \in cloud.shares]_vars

C19_Witness ==
    /\ ctl["alice"].pc = "poll_sleep"
    /\ ctl["bob"].pc = "create_container_group"
    /\ ctl["bob"].attempt = 1
    /\ running = {"bob"}
    /\ cloud.groups[container_group_name("alice")] = "Pending"
    /\ share_name("bob") \in cloud.shares
====
